---- MODULE Spec2Model ----
(***************************************************************************)
(* KTP verification: the field validator (KTPValidator.validate_ktp_data), *)
(* the confidence fusion (KTPValidator.calculate_confidence_score) and the *)
(* verify-ktp request flow (endpoints.verify_ktp).                         *)
(*                                                                         *)
(* Text values are sequences of one-character strings, so that slicing,    *)
(* splitting, trimming, upper-casing and the regular expressions of the    *)
(* source are computed and not assumed.  A field that is None and a field  *)
(* that is the empty string are both the empty sequence: the source only   *)
(* tests such fields for truthiness.                                       *)
(* Scores are exact decimals in hundredths (Scale); a product of two       *)
(* scores is in units of 1/Scale^2.  IEEE-754 rounding is not modelled.    *)
(***************************************************************************)
EXTENDS Integers, Sequences, FiniteSets, TLC

\* ------------------------------------------------------------------ text

NL == "\n"
Whitespace == {" ", NL}
DigitChars == <<"0","1","2","3","4","5","6","7","8","9">>
IsDigit(c) == \E i \in 1..10 : DigitChars[i] = c
DigitVal(c) == (CHOOSE i \in 1..10 : DigitChars[i] = c) - 1
LowerChars == <<"a","b","c","d","e","f","g","h","i","j","k","l","m",
                "n","o","p","q","r","s","t","u","v","w","x","y","z">>
UpperChars == <<"A","B","C","D","E","F","G","H","I","J","K","L","M",
                "N","O","P","Q","R","S","T","U","V","W","X","Y","Z">>

Min(a, b) == IF a <= b THEN a ELSE b
Max(a, b) == IF a >= b THEN a ELSE b

\* s[a:b] of Python for 0 <= a <= b: never raises, cut at the end of s.
PySlice(s, a, b) == SubSeq(s, a + 1, Min(b, Len(s)))

\* str.upper() on the characters of the model's alphabet.
UpperChar(c) ==
  IF \E i \in 1..26 : LowerChars[i] = c
  THEN UpperChars[CHOOSE i \in 1..26 : LowerChars[i] = c]
  ELSE c
PyUpper(s) == [i \in 1..Len(s) |-> UpperChar(s[i])]

\* str.strip(): leading and trailing whitespace removed.
RECURSIVE LStrip(_)
LStrip(s) == IF s # <<>> /\ Head(s) \in Whitespace THEN LStrip(Tail(s)) ELSE s
RECURSIVE RStrip(_)
RStrip(s) ==
  IF s # <<>> /\ s[Len(s)] \in Whitespace THEN RStrip(SubSeq(s, 1, Len(s) - 1)) ELSE s
PyStrip(s) == RStrip(LStrip(s))

AllDigits(s) == \A i \in 1..Len(s) : IsDigit(s[i])
RECURSIVE DecValue(_)
DecValue(s) == IF s = <<>> THEN 0 ELSE 10 * DecValue(SubSeq(s, 1, Len(s) - 1)) + DigitVal(s[Len(s)])

\* int(s) of Python on text without sign or underscore: surrounding
\* whitespace is ignored, the rest must be one or more digits; ok = FALSE
\* stands for ValueError.
PyInt(s) ==
  LET t == PyStrip(s)
  IN IF t # <<>> /\ AllDigits(t) THEN [ok |-> TRUE, val |-> DecValue(t)]
     ELSE [ok |-> FALSE, val |-> 0]

\* int(s) of Python returns a value (it does not raise ValueError).
PyIntOk(s) == LET t == PyStrip(s) IN t # <<>> /\ AllDigits(t)

\* The value of int(s) is beyond 2147483647, the largest C int. It is read off
\* the digits, the first nine of ten against 214748364 and the tenth against 7.
RECURSIVE DropZeros(_)
DropZeros(t) == IF t # <<>> /\ t[1] = "0" THEN DropZeros(Tail(t)) ELSE t
ExceedsCInt(s) ==
  LET t == DropZeros(PyStrip(s))
  IN \/ Len(t) > 10
     \/ /\ Len(t) = 10
        /\ \/ DecValue(SubSeq(t, 1, 9)) > 214748364
           \/ DecValue(SubSeq(t, 1, 9)) = 214748364 /\ DigitVal(t[10]) > 7

\* s.split(sep) of Python for a one-character separator.
RECURSIVE PySplit(_, _)
PySplit(s, sep) ==
  IF \E i \in 1..Len(s) : s[i] = sep
  THEN LET i == CHOOSE k \in 1..Len(s) : s[k] = sep /\ \A j \in 1..(k - 1) : s[j] # sep
       IN <<SubSeq(s, 1, i - 1)>> \o PySplit(SubSeq(s, i + 1, Len(s)), sep)
  ELSE <<s>>

\* needle in hay (substring test of Python).
PyContains(hay, needle) ==
  \E i \in 0..(Len(hay) - Len(needle)) : SubSeq(hay, i + 1, i + Len(needle)) = needle

\* "$" of a Python regular expression without re.MULTILINE: the end of the
\* text, or just before a newline that ends the text.
DollarAt(s, n) == Len(s) = n \/ (Len(s) = n + 1 /\ s[n + 1] = NL)

\* ------------------------------------------------------------------ dates

IsLeap(y) == (y % 4 = 0 /\ y % 100 # 0) \/ y % 400 = 0
DaysInMonth(y, m) ==
  IF m = 2 THEN (IF IsLeap(y) THEN 29 ELSE 28)
  ELSE IF m \in {4, 6, 9, 11} THEN 30 ELSE 31
\* datetime(y, m, d) succeeds; otherwise it raises ValueError.
DatetimeOk(y, m, d) ==
  /\ y >= 1 /\ y <= 9999
  /\ m >= 1 /\ m <= 12
  /\ d >= 1 /\ d <= DaysInMonth(y, m)
\* datetime(y, m, d) > now: midnight of a day is later than an instant of
\* the day now.d only when the day itself is later.
DateAfter(y, m, d, now) ==
  \/ y > now.y
  \/ y = now.y /\ m > now.m
  \/ y = now.y /\ m = now.m /\ d > now.d

\* ------------------------------------------------------------------ KTPValidator

valid_provinces ==
  << <<"A","C","E","H">>,
     <<"S","U","M","A","T","E","R","A"," ","U","T","A","R","A">>,
     <<"S","U","M","A","T","E","R","A"," ","B","A","R","A","T">>,
     <<"R","I","A","U">>,
     <<"J","A","M","B","I">>,
     <<"S","U","M","A","T","E","R","A"," ","S","E","L","A","T","A","N">>,
     <<"B","E","N","G","K","U","L","U">>,
     <<"L","A","M","P","U","N","G">>,
     <<"K","E","P","U","L","A","U","A","N"," ","B","A","N","G","K","A"," ","B","E","L","I","T","U","N","G">>,
     <<"K","E","P","U","L","A","U","A","N"," ","R","I","A","U">>,
     <<"D","K","I"," ","J","A","K","A","R","T","A">>,
     <<"J","A","W","A"," ","B","A","R","A","T">>,
     <<"J","A","W","A"," ","T","E","N","G","A","H">>,
     <<"D","I"," ","Y","O","G","Y","A","K","A","R","T","A">>,
     <<"J","A","W","A"," ","T","I","M","U","R">>,
     <<"B","A","N","T","E","N">>,
     <<"B","A","L","I">>,
     <<"N","U","S","A"," ","T","E","N","G","G","A","R","A"," ","B","A","R","A","T">>,
     <<"N","U","S","A"," ","T","E","N","G","G","A","R","A"," ","T","I","M","U","R">>,
     <<"K","A","L","I","M","A","N","T","A","N"," ","B","A","R","A","T">>,
     <<"K","A","L","I","M","A","N","T","A","N"," ","T","E","N","G","A","H">>,
     <<"K","A","L","I","M","A","N","T","A","N"," ","S","E","L","A","T","A","N">>,
     <<"K","A","L","I","M","A","N","T","A","N"," ","T","I","M","U","R">>,
     <<"K","A","L","I","M","A","N","T","A","N"," ","U","T","A","R","A">>,
     <<"S","U","L","A","W","E","S","I"," ","U","T","A","R","A">>,
     <<"S","U","L","A","W","E","S","I"," ","T","E","N","G","A","H">>,
     <<"S","U","L","A","W","E","S","I"," ","S","E","L","A","T","A","N">>,
     <<"S","U","L","A","W","E","S","I"," ","T","E","N","G","G","A","R","A">>,
     <<"G","O","R","O","N","T","A","L","O">>,
     <<"S","U","L","A","W","E","S","I"," ","B","A","R","A","T">>,
     <<"M","A","L","U","K","U">>,
     <<"M","A","L","U","K","U"," ","U","T","A","R","A">>,
     <<"P","A","P","U","A">>,
     <<"P","A","P","U","A"," ","B","A","R","A","T">>,
     <<"P","A","P","U","A"," ","S","E","L","A","T","A","N">>,
     <<"P","A","P","U","A"," ","T","E","N","G","A","H">>,
     <<"P","A","P","U","A"," ","P","E","G","U","N","U","N","G","A","N">>,
     <<"P","A","P","U","A"," ","B","A","R","A","T"," ","D","A","Y","A">> >>

valid_religions ==
  << <<"I","S","L","A","M">>,
     <<"K","R","I","S","T","E","N">>,
     <<"K","A","T","O","L","I","K">>,
     <<"H","I","N","D","U">>,
     <<"B","U","D","D","H","A">>,
     <<"K","O","N","G","H","U","C","U">> >>

valid_genders == {"LAKI-LAKI", "PEREMPUAN"}
valid_marital_status == {"BELUM KAWIN", "KAWIN", "CERAI HIDUP", "CERAI MATI"}
\* An Optional enum field that is None.
None == "None"

\* The defects, named by the message of the source without its interpolated value.
E_NIK_EMPTY == "NIK tidak boleh kosong"
E_NIK_SHAPE == "NIK harus 16 digit angka"
E_NIK_REGION == "Kode wilayah NIK tidak valid"
E_NIK_DATE == "Tanggal lahir dalam NIK tidak valid"
E_NIK_SEQ == "Nomor urut NIK tidak boleh 0000"
E_NAME == "Nama tidak valid atau terlalu pendek"
E_DAY == "Tanggal tidak valid: {day}"
E_MONTH == "Bulan tidak valid"
E_YEAR == "Tahun tidak valid"
E_FUTURE == "Tanggal lahir tidak boleh di masa depan"
E_DATE == "Tanggal tidak valid: {birth_date}"
E_DATE_FORMAT == "Format tanggal lahir salah"
E_GENDER == "Jenis kelamin tidak valid"
E_PROVINCE == "Provinsi tidak dikenali"
E_RELIGION == "Agama tidak valid"
E_MARITAL == "Status perkawinan tidak valid"
E_RT_RW == "Format RT/RW tidak valid"
E_X_GENDER == "Jenis kelamin tidak sesuai dengan NIK"
E_X_DATE == "Tanggal lahir tidak sesuai dengan NIK"

\* re.match(r'^\d{16}$', nik)
NikPattern(nik) ==
  /\ Len(nik) >= 16
  /\ AllDigits(SubSeq(nik, 1, 16))
  /\ DollarAt(nik, 16)

\* Variants: a 2-digit year equal to the pivot goes to the 1900s.
FullYear_StrictPivot(year, current_year) ==
  IF year < (current_year - 1900) % 100 THEN 2000 + year ELSE 1900 + year
YearNikFull_StrictPivot(year_nik, current_year) ==
  IF year_nik < (current_year - 1900) % 100 THEN 2000 + year_nik ELSE 1900 + year_nik

\* Lines 185-190: full_year of _validate_birth_date_in_nik.
FullYear(year, current_year) ==
  IF year <= (current_year - 1900) % 100 THEN 2000 + year ELSE 1900 + year

\* Lines 320-325: year_nik_full of _cross_validate_nik_data.
YearNikFull(year_nik, current_year) ==
  IF year_nik <= (current_year - 1900) % 100 THEN 2000 + year_nik ELSE 1900 + year_nik

\* Variant: the district segment (digits 5-6) is not looked at.
_validate_region_code_IgnoresDistrict(region_code) ==
  IF PySlice(region_code, 0, 2) = <<"0", "0">> THEN FALSE
  ELSE IF PySlice(region_code, 2, 4) = <<"0", "0">> THEN FALSE
  ELSE TRUE

_validate_region_code(region_code) ==
  IF PySlice(region_code, 0, 2) = <<"0", "0">> THEN FALSE
  ELSE IF PySlice(region_code, 2, 4) = <<"0", "0">> THEN FALSE
  ELSE IF PySlice(region_code, 4, 6) = <<"0", "0">> THEN FALSE
  ELSE TRUE

\* Variant: the 40 added to the day of a female bearer is not subtracted.
_validate_birth_date_in_nik_KeepsOffset(birth_date_str, clk) ==
  LET pd == PyInt(PySlice(birth_date_str, 0, 2))
      pm == PyInt(PySlice(birth_date_str, 2, 4))
      py == PyInt(PySlice(birth_date_str, 4, 6))
  IN IF ~(pd.ok /\ pm.ok /\ py.ok) THEN FALSE
     ELSE
       LET day == pd.val
           month == pm.val
           year == py.val
           current_year == clk.c186.y
           full_year == FullYear(year, current_year)
       IN IF day < 1 \/ day > 31 THEN FALSE
          ELSE IF month < 1 \/ month > 12 THEN FALSE
          ELSE IF ~DatetimeOk(full_year, month, day) THEN FALSE
          ELSE IF DateAfter(full_year, month, day, clk.c196) THEN FALSE
          ELSE TRUE

\* clk.c186 and clk.c196 are the two readings of datetime.now() the function takes.
_validate_birth_date_in_nik(birth_date_str, clk) ==
  LET pd == PyInt(PySlice(birth_date_str, 0, 2))
      pm == PyInt(PySlice(birth_date_str, 2, 4))
      py == PyInt(PySlice(birth_date_str, 4, 6))
  IN IF ~(pd.ok /\ pm.ok /\ py.ok) THEN FALSE
     ELSE
       LET day == IF pd.val > 40 THEN pd.val - 40 ELSE pd.val
           month == pm.val
           year == py.val
           current_year == clk.c186.y
           full_year == FullYear(year, current_year)
       IN IF day < 1 \/ day > 31 THEN FALSE
          ELSE IF month < 1 \/ month > 12 THEN FALSE
          ELSE IF ~DatetimeOk(full_year, month, day) THEN FALSE
          ELSE IF DateAfter(full_year, month, day, clk.c196) THEN FALSE
          ELSE TRUE

\* Variant: the region, date and sequence rules stop at the first defect.
_validate_nik_StopsAtFirst(nik, clk) ==
  IF nik = <<>> THEN <<E_NIK_EMPTY>>
  ELSE IF ~NikPattern(nik) THEN <<E_NIK_SHAPE>>
  ELSE
    IF ~_validate_region_code(PySlice(nik, 0, 6)) THEN <<E_NIK_REGION>>
    ELSE IF ~_validate_birth_date_in_nik(PySlice(nik, 6, 12), clk) THEN <<E_NIK_DATE>>
    ELSE IF PySlice(nik, 12, 16) = <<"0", "0", "0", "0">> THEN <<E_NIK_SEQ>>
    ELSE <<>>

_validate_nik(nik, clk) ==
  IF nik = <<>> THEN <<E_NIK_EMPTY>>
  ELSE IF ~NikPattern(nik) THEN <<E_NIK_SHAPE>>
  ELSE
    (IF ~_validate_region_code(PySlice(nik, 0, 6)) THEN <<E_NIK_REGION>> ELSE <<>>)
    \o (IF ~_validate_birth_date_in_nik(PySlice(nik, 6, 12), clk) THEN <<E_NIK_DATE>> ELSE <<>>)
    \o (IF PySlice(nik, 12, 16) = <<"0", "0", "0", "0">> THEN <<E_NIK_SEQ>> ELSE <<>>)

\* Variant: the conditions on the declared date exclude one another (elif).
_validate_birth_date_FirstOnly(birth_date, clk) ==
  LET parts == PySplit(birth_date, "-")
  IN IF Len(parts) # 3 THEN <<E_DATE_FORMAT>>
     ELSE
       LET pd == PyInt(parts[1])
           pm == PyInt(parts[2])
           py == PyInt(parts[3])
       IN IF ~(pd.ok /\ pm.ok /\ py.ok) THEN <<E_DATE_FORMAT>>
          ELSE
            LET day == pd.val
                month == pm.val
                year == py.val
            IN IF day < 1 \/ day > 31 THEN <<E_DAY>>
               ELSE IF month < 1 \/ month > 12 THEN <<E_MONTH>>
               ELSE IF year < 1900 \/ year > clk.c228.y THEN <<E_YEAR>>
               ELSE IF ~DatetimeOk(year, month, day) THEN <<E_DATE>>
               ELSE IF DateAfter(year, month, day, clk.c234) THEN <<E_FUTURE>>
               ELSE <<>>

\* clk.c228 and clk.c234 are the two readings of datetime.now() the function takes.
_validate_birth_date(birth_date, clk) ==
  LET parts == PySplit(birth_date, "-")
  IN IF Len(parts) # 3 THEN <<E_DATE_FORMAT>>
     ELSE
       LET pd == PyInt(parts[1])
           pm == PyInt(parts[2])
           py == PyInt(parts[3])
       IN IF ~(pd.ok /\ pm.ok /\ py.ok) THEN <<E_DATE_FORMAT>>
          ELSE
            LET day == pd.val
                month == pm.val
                year == py.val
            IN (IF day < 1 \/ day > 31 THEN <<E_DAY>> ELSE <<>>)
               \o (IF month < 1 \/ month > 12 THEN <<E_MONTH>> ELSE <<>>)
               \o (IF year < 1900 \/ year > clk.c228.y THEN <<E_YEAR>> ELSE <<>>)
               \o (IF ~DatetimeOk(year, month, day) THEN <<E_DATE>>
                   ELSE IF DateAfter(year, month, day, clk.c234) THEN <<E_FUTURE>>
                   ELSE <<>>)

\* datetime(year, month, day) raises OverflowError, which neither except clause
\* of _validate_birth_date catches, for an argument beyond a C int.
_validate_birth_date_raises(birth_date) ==
  LET parts == PySplit(birth_date, "-")
  IN /\ Len(parts) = 3
     /\ \A i \in 1..3 : PyIntOk(parts[i])
     /\ \E i \in 1..3 : ExceedsCInt(parts[i])

\* Variant: only a name of the list is accepted, no part or extension of one.
_validate_province_ExactOnly(province) ==
  LET province_upper == PyStrip(PyUpper(province))
  IN IF \E i \in 1..Len(valid_provinces) : valid_provinces[i] = province_upper THEN <<>>
     ELSE <<E_PROVINCE>>

_validate_province(province) ==
  LET province_upper == PyStrip(PyUpper(province))
  IN IF \E i \in 1..Len(valid_provinces) : valid_provinces[i] = province_upper THEN <<>>
     ELSE IF \E i \in 1..Len(valid_provinces) :
               \/ PyContains(valid_provinces[i], province_upper)
               \/ PyContains(province_upper, valid_provinces[i])
          THEN <<>>
          ELSE <<E_PROVINCE>>

\* re.match(r'^\d{3}/\d{3}$', rt_rw)
_validate_rt_rw_format(rt_rw) ==
  /\ Len(rt_rw) >= 7
  /\ AllDigits(SubSeq(rt_rw, 1, 3))
  /\ rt_rw[4] = "/"
  /\ AllDigits(SubSeq(rt_rw, 5, 7))
  /\ DollarAt(rt_rw, 7)

\* Variant: the declared day is compared with the raw day of the identity number.
_cross_validate_nik_data_RawDay(ktp_data, clk) ==
  LET tgl_lahir_nik == PySlice(ktp_data.nik, 6, 12)
      pd == PyInt(PySlice(tgl_lahir_nik, 0, 2))
      pm == PyInt(PySlice(tgl_lahir_nik, 2, 4))
      py == PyInt(PySlice(tgl_lahir_nik, 4, 6))
  IN IF ~(pd.ok /\ pm.ok /\ py.ok) THEN <<>>
     ELSE
       LET is_female_nik == pd.val > 40
           day_nik == IF is_female_nik THEN pd.val - 40 ELSE pd.val
           month_nik == pm.val
           year_nik == py.val
           is_female_data == ktp_data.jenis_kelamin = "PEREMPUAN"
           parts == PySplit(ktp_data.tanggal_lahir, "-")
           dd == PyInt(parts[1])
           dm == PyInt(parts[2])
           dy == PyInt(parts[3])
           current_year == clk.c321.y
           year_nik_full == YearNikFull(year_nik, current_year)
       IN (IF ktp_data.jenis_kelamin # None /\ is_female_nik # is_female_data
           THEN <<E_X_GENDER>> ELSE <<>>)
          \o (IF ktp_data.tanggal_lahir = <<>> THEN <<>>
              ELSE IF Len(parts) # 3 THEN <<>>
              ELSE IF ~(dd.ok /\ dm.ok /\ dy.ok) THEN <<>>
              ELSE IF pd.val # dd.val \/ month_nik # dm.val \/ year_nik_full # dy.val
                   THEN <<E_X_DATE>>
              ELSE <<>>)

\* Variant: a declared date that does not parse counts as a mismatch.
_cross_validate_nik_data_ReportsParseFailure(ktp_data, clk) ==
  LET tgl_lahir_nik == PySlice(ktp_data.nik, 6, 12)
      pd == PyInt(PySlice(tgl_lahir_nik, 0, 2))
      pm == PyInt(PySlice(tgl_lahir_nik, 2, 4))
      py == PyInt(PySlice(tgl_lahir_nik, 4, 6))
  IN IF ~(pd.ok /\ pm.ok /\ py.ok) THEN <<>>
     ELSE
       LET is_female_nik == pd.val > 40
           day_nik == IF is_female_nik THEN pd.val - 40 ELSE pd.val
           month_nik == pm.val
           year_nik == py.val
           is_female_data == ktp_data.jenis_kelamin = "PEREMPUAN"
           parts == PySplit(ktp_data.tanggal_lahir, "-")
           dd == PyInt(parts[1])
           dm == PyInt(parts[2])
           dy == PyInt(parts[3])
           current_year == clk.c321.y
           year_nik_full == YearNikFull(year_nik, current_year)
       IN (IF ktp_data.jenis_kelamin # None /\ is_female_nik # is_female_data
           THEN <<E_X_GENDER>> ELSE <<>>)
          \o (IF ktp_data.tanggal_lahir = <<>> THEN <<>>
              ELSE IF Len(parts) # 3 THEN <<E_X_DATE>>
              ELSE IF ~(dd.ok /\ dm.ok /\ dy.ok) THEN <<E_X_DATE>>
              ELSE IF day_nik # dd.val \/ month_nik # dm.val \/ year_nik_full # dy.val
                   THEN <<E_X_DATE>>
              ELSE <<>>)

\* Variant: 40 is taken off a day of 40 as well, which is not flagged female.
DecodeNik_OffsetFrom40(nik) ==
  LET kode_wilayah == PySlice(nik, 0, 6)
      tgl_lahir_nik == PySlice(nik, 6, 12)
      day == PyInt(PySlice(tgl_lahir_nik, 0, 2)).val
      is_female_nik == day > 40
  IN [provinsi |-> PySlice(kode_wilayah, 0, 2),
      kabupaten_kota |-> PySlice(kode_wilayah, 2, 4),
      kecamatan |-> PySlice(kode_wilayah, 4, 6),
      is_female_nik |-> is_female_nik,
      day_nik |-> IF day >= 40 THEN day - 40 ELSE day,
      month_nik |-> PyInt(PySlice(tgl_lahir_nik, 2, 4)).val,
      year_nik |-> PyInt(PySlice(tgl_lahir_nik, 4, 6)).val,
      nomor_urut |-> PySlice(nik, 12, 16)]

\* What the validator reads off a 16-digit identity number: the three region
\* segments of _validate_region_code (lines 148-156), sex flag, day, month and
\* 2-digit year of _cross_validate_nik_data (lines 295-306), and the sequence
\* segment of _validate_nik (line 128).
DecodeNik(nik) ==
  LET kode_wilayah == PySlice(nik, 0, 6)
      tgl_lahir_nik == PySlice(nik, 6, 12)
      day == PyInt(PySlice(tgl_lahir_nik, 0, 2)).val
      is_female_nik == day > 40
  IN [provinsi |-> PySlice(kode_wilayah, 0, 2),
      kabupaten_kota |-> PySlice(kode_wilayah, 2, 4),
      kecamatan |-> PySlice(kode_wilayah, 4, 6),
      is_female_nik |-> is_female_nik,
      day_nik |-> IF is_female_nik THEN day - 40 ELSE day,
      month_nik |-> PyInt(PySlice(tgl_lahir_nik, 2, 4)).val,
      year_nik |-> PyInt(PySlice(tgl_lahir_nik, 4, 6)).val,
      nomor_urut |-> PySlice(nik, 12, 16)]

\* clk.c321 is the reading of datetime.now() the function takes.
_cross_validate_nik_data(ktp_data, clk) ==
  LET tgl_lahir_nik == PySlice(ktp_data.nik, 6, 12)
      pd == PyInt(PySlice(tgl_lahir_nik, 0, 2))
      pm == PyInt(PySlice(tgl_lahir_nik, 2, 4))
      py == PyInt(PySlice(tgl_lahir_nik, 4, 6))
  IN IF ~(pd.ok /\ pm.ok /\ py.ok) THEN <<>>
     ELSE
       LET is_female_nik == pd.val > 40
           day_nik == IF is_female_nik THEN pd.val - 40 ELSE pd.val
           month_nik == pm.val
           year_nik == py.val
           is_female_data == ktp_data.jenis_kelamin = "PEREMPUAN"
           parts == PySplit(ktp_data.tanggal_lahir, "-")
           dd == PyInt(parts[1])
           dm == PyInt(parts[2])
           dy == PyInt(parts[3])
           current_year == clk.c321.y
           year_nik_full == YearNikFull(year_nik, current_year)
       IN (IF ktp_data.jenis_kelamin # None /\ is_female_nik # is_female_data
           THEN <<E_X_GENDER>> ELSE <<>>)
          \o (IF ktp_data.tanggal_lahir = <<>> THEN <<>>
              ELSE IF Len(parts) # 3 THEN <<>>
              ELSE IF ~(dd.ok /\ dm.ok /\ dy.ok) THEN <<>>
              ELSE IF day_nik # dd.val \/ month_nik # dm.val \/ year_nik_full # dy.val
                   THEN <<E_X_DATE>>
              ELSE <<>>)

\* The call ends with an exception instead of a result: validate_ktp_data has
\* no try block of its own, and of the functions it calls only
\* _validate_birth_date lets an exception out.
validate_ktp_data_raises(ktp_data) ==
  ktp_data.tanggal_lahir # <<>> /\ _validate_birth_date_raises(ktp_data.tanggal_lahir)

\* Variant: the cross-validation runs before the other rules.
validate_ktp_data_CrossFirst(ktp_data, clk) ==
  (IF ktp_data.nik # <<>> /\ ktp_data.tanggal_lahir # <<>>
   THEN _cross_validate_nik_data(ktp_data, clk) ELSE <<>>)
  \o _validate_nik(ktp_data.nik, clk)
  \o (IF ktp_data.nama = <<>> \/ Len(PyStrip(ktp_data.nama)) < 2 THEN <<E_NAME>> ELSE <<>>)
  \o (IF ktp_data.tanggal_lahir # <<>> THEN _validate_birth_date(ktp_data.tanggal_lahir, clk)
      ELSE <<>>)
  \o (IF ktp_data.jenis_kelamin # None /\ ktp_data.jenis_kelamin \notin valid_genders
      THEN <<E_GENDER>> ELSE <<>>)
  \o (IF ktp_data.provinsi # <<>> THEN _validate_province(ktp_data.provinsi) ELSE <<>>)
  \o (IF ktp_data.agama # <<>>
         /\ ~(\E i \in 1..Len(valid_religions) : valid_religions[i] = PyUpper(ktp_data.agama))
      THEN <<E_RELIGION>> ELSE <<>>)
  \o (IF ktp_data.status_perkawinan # None
         /\ ktp_data.status_perkawinan \notin valid_marital_status
      THEN <<E_MARITAL>> ELSE <<>>)
  \o (IF ktp_data.rt_rw # <<>> /\ ~_validate_rt_rw_format(ktp_data.rt_rw)
      THEN <<E_RT_RW>> ELSE <<>>)

\* Variant: the length of the name is taken before trimming.
validate_ktp_data_UntrimmedName(ktp_data, clk) ==
  _validate_nik(ktp_data.nik, clk)
  \o (IF ktp_data.nama = <<>> \/ Len(ktp_data.nama) < 2 THEN <<E_NAME>> ELSE <<>>)
  \o (IF ktp_data.tanggal_lahir # <<>> THEN _validate_birth_date(ktp_data.tanggal_lahir, clk)
      ELSE <<>>)
  \o (IF ktp_data.jenis_kelamin # None /\ ktp_data.jenis_kelamin \notin valid_genders
      THEN <<E_GENDER>> ELSE <<>>)
  \o (IF ktp_data.provinsi # <<>> THEN _validate_province(ktp_data.provinsi) ELSE <<>>)
  \o (IF ktp_data.agama # <<>>
         /\ ~(\E i \in 1..Len(valid_religions) : valid_religions[i] = PyUpper(ktp_data.agama))
      THEN <<E_RELIGION>> ELSE <<>>)
  \o (IF ktp_data.status_perkawinan # None
         /\ ktp_data.status_perkawinan \notin valid_marital_status
      THEN <<E_MARITAL>> ELSE <<>>)
  \o (IF ktp_data.rt_rw # <<>> /\ ~_validate_rt_rw_format(ktp_data.rt_rw)
      THEN <<E_RT_RW>> ELSE <<>>)
  \o (IF ktp_data.nik # <<>> /\ ktp_data.tanggal_lahir # <<>>
      THEN _cross_validate_nik_data(ktp_data, clk) ELSE <<>>)

validate_ktp_data(ktp_data, clk) ==
  _validate_nik(ktp_data.nik, clk)
  \o (IF ktp_data.nama = <<>> \/ Len(PyStrip(ktp_data.nama)) < 2 THEN <<E_NAME>> ELSE <<>>)
  \o (IF ktp_data.tanggal_lahir # <<>> THEN _validate_birth_date(ktp_data.tanggal_lahir, clk)
      ELSE <<>>)
  \o (IF ktp_data.jenis_kelamin # None /\ ktp_data.jenis_kelamin \notin valid_genders
      THEN <<E_GENDER>> ELSE <<>>)
  \o (IF ktp_data.provinsi # <<>> THEN _validate_province(ktp_data.provinsi) ELSE <<>>)
  \o (IF ktp_data.agama # <<>>
         /\ ~(\E i \in 1..Len(valid_religions) : valid_religions[i] = PyUpper(ktp_data.agama))
      THEN <<E_RELIGION>> ELSE <<>>)
  \o (IF ktp_data.status_perkawinan # None
         /\ ktp_data.status_perkawinan \notin valid_marital_status
      THEN <<E_MARITAL>> ELSE <<>>)
  \o (IF ktp_data.rt_rw # <<>> /\ ~_validate_rt_rw_format(ktp_data.rt_rw)
      THEN <<E_RT_RW>> ELSE <<>>)
  \o (IF ktp_data.nik # <<>> /\ ktp_data.tanggal_lahir # <<>>
      THEN _cross_validate_nik_data(ktp_data, clk) ELSE <<>>)

\* ------------------------------------------------------------------ scores

\* 1.0 in hundredths.
Scale == 100
\* 0.3 and 0.1 of calculate_confidence_score, in hundredths.
PenaltyCap == 30
PenaltyPerError == 10
\* "if len(validation_errors) > 3" of verify_ktp.
ErrorThreshold == 3
\* "image_quality_score = 0.8 if not image_quality_valid else 1.0", in hundredths.
QualityLow == 80
QualityHigh == 100

\* error_penalty without the cap of 0.3.
error_penalty_Uncapped(validation_errors) ==
  IF validation_errors # <<>> THEN Len(validation_errors) * PenaltyPerError ELSE 0

\* The penalty calculate_confidence_score subtracts, in hundredths.
error_penalty(validation_errors) ==
  IF validation_errors # <<>>
  THEN Min(PenaltyCap, Len(validation_errors) * PenaltyPerError)
  ELSE 0

\* calculate_confidence_score returning final_score without the last clamp.
calculate_confidence_score_NoClamp(confidence_score, validation_errors, image_quality_score) ==
  (confidence_score - error_penalty(validation_errors)) * image_quality_score

\* calculate_confidence_score adding the penalty instead of subtracting it.
calculate_confidence_score_AddsPenalty(confidence_score, validation_errors, image_quality_score) ==
  Max(0, Min(Scale * Scale,
             (confidence_score + error_penalty(validation_errors)) * image_quality_score))

\* calculate_confidence_score clamping both numeric inputs to [0,1] first.
calculate_confidence_score_ClampsInputs(confidence_score, validation_errors, image_quality_score) ==
  Max(0, Min(Scale * Scale,
             (Max(0, Min(Scale, confidence_score)) - error_penalty(validation_errors))
               * Max(0, Min(Scale, image_quality_score))))

\* calculate_confidence_score applying the image quality before the penalty.
calculate_confidence_score_QualityFirst(confidence_score, validation_errors, image_quality_score) ==
  Max(0, Min(Scale * Scale,
             confidence_score * image_quality_score - error_penalty(validation_errors) * Scale))

\* confidence_score and image_quality_score in hundredths, the result in
\* units of 1/Scale^2 (the exact product).
calculate_confidence_score(confidence_score, validation_errors, image_quality_score) ==
  LET base_score == confidence_score - error_penalty(validation_errors)
      final_score == base_score * image_quality_score
  IN Max(0, Min(Scale * Scale, final_score))

\* ------------------------------------------------------------------ inputs

\* n in decimal, zero-padded to width w (n < 10^w): how the inputs below are written.
RECURSIVE Dig(_, _)
Dig(n, w) == IF w = 0 THEN <<>> ELSE Dig(n \div 10, w - 1) \o <<DigitChars[(n % 10) + 1]>>

Nik16(region, dd, mm, yy, seq) ==
  Dig(region, 6) \o Dig(dd, 2) \o Dig(mm, 2) \o Dig(yy, 2) \o Dig(seq, 4)
DateText(d, m, y) == Dig(d, 2) \o <<"-">> \o Dig(m, 2) \o <<"-">> \o Dig(y, 4)

\* Identity numbers of valid shape: every (day, month, year) segment of the
\* value sets below under one region and sequence, and the region and sequence
\* variants under one date.
NikDays == {0, 1, 25, 31, 40, 41, 65, 71, 72, 99}
NikMonths == {0, 2, 12, 13, 50}
NikYears == {24, 25, 26, 90}
NikRegions == {320112, 112, 320012, 320100, 120000, 0}
NikSeqs == {0, 1, 10}
WellShapedNiks ==
  {Nik16(320112, d, m, y, 1) : d \in NikDays, m \in NikMonths, y \in NikYears}
  \cup {Nik16(r, 1, 2, 90, s) : r \in NikRegions, s \in NikSeqs}
  \cup {Nik16(320112, 34, 50, 10, 10), Nik16(0, 99, 50, 26, 0)}

\* Identity numbers that are not 16 digits: absent/empty, 15 and 17 digits,
\* 16 characters with a letter, 16 digits followed by a newline, 7 characters.
Nik15 == Dig(0, 6) \o Dig(10190001, 9)
MalformedNiks ==
  { <<>>,
    Nik15,
    SubSeq(Nik16(320112, 41, 2, 90, 1), 1, 15),
    Nik16(320112, 1, 2, 90, 1) \o <<"7">>,
    Nik16(320112, 1, 2, 90, 1) \o <<NL>>,
    Nik16(0, 0, 0, 0, 0) \o <<NL>>,
    [Nik16(320112, 1, 2, 90, 1) EXCEPT ![16] = "x"],
    [Nik16(320112, 1, 2, 90, 1) EXCEPT ![8] = "x"],
    Dig(3201124, 7) }

\* 2147483647, the largest C int, and the number after it, as text.
CIntMaxText == Dig(214748364, 9) \o Dig(7, 1)
CIntMaxPlusOneText == Dig(214748364, 9) \o Dig(8, 1)

\* Declared birth dates: absent, well-formed (agreeing with some identity
\* numbers above or not, out of range, impossible, in the future), and text
\* that does not parse as three integers, and dates with a component at or beyond
\* the largest C int.
DeclaredDates ==
  { <<>>,
    DateText(1, 2, 1990), DateText(25, 2, 1990), DateText(1, 2, 1890),
    DateText(31, 2, 1990), DateText(29, 2, 1990), DateText(29, 2, 2024),
    DateText(1, 12, 2025), DateText(1, 12, 2024), DateText(31, 12, 2024),
    DateText(1, 2, 2026), DateText(1, 2, 1926), DateText(1, 2, 1925),
    DateText(32, 13, 1990), DateText(0, 2, 1990), DateText(1, 0, 1990),
    DateText(32, 13, 2090), DateText(1, 2, 0),
    Dig(1, 1) \o <<"-">> \o Dig(2, 1) \o <<"-">> \o Dig(1990, 4),
    <<" ">> \o DateText(1, 2, 1990),
    Dig(1990, 4) \o <<"-">> \o Dig(2, 2),
    Dig(1, 2) \o <<"/">> \o Dig(2, 2) \o <<"/">> \o Dig(1990, 4),
    <<"x", "x">> \o <<"-">> \o Dig(2, 2) \o <<"-">> \o Dig(1990, 4),
    DateText(1, 2, 1990) \o <<"-">>,
    <<"-">>,
    Dig(1, 2) \o <<"-">> \o Dig(2, 2) \o <<"-">> \o CIntMaxText,
    Dig(1, 2) \o <<"-">> \o Dig(2, 2) \o <<"-">> \o CIntMaxPlusOneText,
    Dig(32, 2) \o <<"-">> \o CIntMaxPlusOneText \o <<"-">> \o Dig(1990, 4) }

Sexes == {None, "LAKI-LAKI", "PEREMPUAN"}
MaritalStatuses == {None, "KAWIN"}
Names ==
  { <<>>, <<"A", "N">>, <<"A">>, <<" ", "A", " ">>, <<" ", " ">>, <<"B", "U", "D", "I">> }
Provinces ==
  { <<>>,
    <<"J","A","W","A"," ","B","A","R","A","T">>,
    <<" ","j","a","w","a"," ","b","a","r","a","t"," ">>,
    <<"J","A","W","A">>,
    <<"P","R","O","V","I","N","S","I"," ","B","A","L","I">>,
    <<"J","A","V","A">>,
    <<" ">>,
    <<"X">> }
Religions ==
  { <<>>, <<"I","S","L","A","M">>, <<"i","s","l","a","m">>, <<"I","S","L","A","M"," ">>,
    <<"S","H","I","N","T","O">> }
RtRws ==
  { <<>>, Dig(1, 3) \o <<"/">> \o Dig(2, 3), Dig(1, 3) \o <<"/">> \o Dig(2, 3) \o <<NL>>,
    Dig(1, 2) \o <<"/">> \o Dig(2, 3), Dig(1, 3) \o <<"-">> \o Dig(2, 3) }

KTPData(nik, nama, tanggal_lahir, jenis_kelamin, provinsi, agama, status_perkawinan, rt_rw) ==
  [nik |-> nik, nama |-> nama, tanggal_lahir |-> tanggal_lahir,
   jenis_kelamin |-> jenis_kelamin, provinsi |-> provinsi, agama |-> agama,
   status_perkawinan |-> status_perkawinan, rt_rw |-> rt_rw]

\* The record every input family below varies.
CleanNik == Nik16(320112, 1, 2, 90, 1)
CleanRecord ==
  KTPData(CleanNik, <<"A", "N">>, DateText(1, 2, 1990), "LAKI-LAKI",
          <<"J","A","W","A"," ","B","A","R","A","T">>, <<"I","S","L","A","M">>, "KAWIN",
          Dig(1, 3) \o <<"/">> \o Dig(2, 3))

\* Records given to validate_ktp_data: every identity number with every sex
\* and a choice of declared dates; every declared date with every sex under
\* some identity numbers; every value of each other field, alone and in pairs;
\* and records with a defect in every field.
DatesForNiks == {<<>>, DateText(1, 2, 1990), DateText(25, 2, 1990), <<"-">>}
NiksForDates ==
  {CleanNik, Nik16(320112, 41, 2, 90, 1), Nik16(320112, 1, 12, 25, 1),
   Nik16(320112, 1, 2, 26, 1), Nik15}
BadRecord(nik, tanggal_lahir, jenis_kelamin) ==
  KTPData(nik, <<"A">>, tanggal_lahir, jenis_kelamin, <<"X">>, <<"S","H","I","N","T","O">>,
          None, Dig(1, 2) \o <<"/">> \o Dig(2, 3))
ValidatorRecords ==
  {[CleanRecord EXCEPT !.nik = n, !.jenis_kelamin = s, !.tanggal_lahir = t] :
     n \in WellShapedNiks \cup MalformedNiks, s \in Sexes, t \in DatesForNiks}
  \cup {[CleanRecord EXCEPT !.nik = n, !.jenis_kelamin = s, !.tanggal_lahir = t] :
     n \in NiksForDates, s \in Sexes, t \in DeclaredDates}
  \cup {[CleanRecord EXCEPT !.nama = a, !.provinsi = p] : a \in Names, p \in Provinces}
  \cup {[CleanRecord EXCEPT !.agama = g, !.rt_rw = r, !.status_perkawinan = k] :
     g \in Religions, r \in RtRws, k \in MaritalStatuses}
  \cup {[CleanRecord EXCEPT !.nama = a, !.agama = g] : a \in Names, g \in Religions}
  \cup {[CleanRecord EXCEPT !.provinsi = p, !.rt_rw = r] : p \in Provinces, r \in RtRws}
  \cup {BadRecord(n, t, s) :
     n \in {Nik16(0, 99, 50, 26, 0), Nik16(320112, 34, 50, 10, 10), CleanNik, Nik15, <<>>},
     t \in {<<>>, DateText(32, 13, 2090), DateText(1, 2, 1990), <<"-">>},
     s \in Sexes}

\* The readings of datetime.now() one call of validate_ktp_data takes, in the
\* order it takes them: the same day throughout, or midnight of a new year
\* passing between two of them.
Date(y, m, d) == [y |-> y, m |-> m, d |-> d]
Today == Date(2025, 6, 15)
NewYearsEve == Date(2024, 12, 31)
NewYearsDay == Date(2025, 1, 1)
SteadyClock(t) == [c186 |-> t, c196 |-> t, c228 |-> t, c234 |-> t, c321 |-> t]
SteadyClocks == {SteadyClock(t) : t \in {Today, NewYearsEve, NewYearsDay}}
Readings == <<"c186", "c196", "c228", "c234", "c321">>
RolloverClocks ==
  {[f \in {Readings[i] : i \in 1..5} |->
      IF \E i \in 1..(k - 1) : Readings[i] = f THEN NewYearsEve ELSE NewYearsDay] : k \in 2..5}
Clocks == SteadyClocks \cup RolloverClocks

\* ------------------------------------------------------------------ state

VARIABLES
  v_pc, v_in, v_clk,          \* one call of validate_ktp_data: position, record, clock
  v_valid, v_out,             \* the pair it returns: is-valid flag and defect list
  f_pc, f_in, f_out,          \* one call of calculate_confidence_score: position, arguments, result
  pc,                         \* verify_ktp: position of the request
  raw,                        \* the dictionary parsed from the extractor's response
  upstream,                   \* the KTPValidationResult as analyze_ktp_with_face returned it
  analysis_result,            \* the KTPValidationResult verify_ktp updates and returns
  image_quality_score,
  clk,                        \* the readings of datetime.now() during the request
  validation,                 \* <<>>, or <<validation_errors>> once validate_ktp_data ran
  score_call,                 \* <<>>, or <<the arguments of calculate_confidence_score>>
  db,                         \* ktp_records: the stored rows [id, nik]
  logs,                       \* processing_logs rows written by the request
  calls,                      \* the calls the request made to DatabaseService, in order
  u_pc, u_in, u_out,          \* one evaluation of a step of the validator: position, input, result
  reqs,                       \* concurrent requests: each request's position and local values
  ktp_records,                \* committed rows [id, nik] of table ktp_records
  pending,                    \* rows [req, id, nik] flushed by a session and not yet committed
  next_id,                    \* the next value of the autoincrement id of ktp_records
  now,                        \* time.time() in whole seconds
  files,                      \* face image files: path -> the request whose crop the file holds
  processing_logs             \* rows [req, status] of table processing_logs

vars == <<v_pc, v_in, v_clk, v_valid, v_out, f_pc, f_in, f_out, pc, raw, upstream, analysis_result,
          image_quality_score, clk, validation, score_call, db, logs, calls, u_pc, u_in, u_out,
          reqs, ktp_records, pending, next_id, now, files, processing_logs>>
flow_vars == <<pc, raw, upstream, analysis_result, image_quality_score, clk, validation,
               score_call, db, logs, calls>>
unit_vars == <<u_pc, u_in, u_out>>
conc_vars == <<reqs, ktp_records, pending, next_id, now, files, processing_logs>>

\* A part of the state that a specification does not use.
Idle == "idle"
ValidatorIdle ==
  v_pc = Idle /\ v_in = Idle /\ v_clk = Idle /\ v_valid = Idle /\ v_out = Idle
FuseIdle == f_pc = Idle /\ f_in = Idle /\ f_out = Idle
FlowIdle ==
  /\ pc = Idle /\ raw = Idle /\ upstream = Idle /\ analysis_result = Idle
  /\ image_quality_score = Idle /\ clk = Idle /\ validation = Idle /\ score_call = Idle
  /\ db = Idle /\ logs = Idle /\ calls = Idle
UnitIdle == u_pc = Idle /\ u_in = Idle /\ u_out = Idle
ConcIdle ==
  /\ reqs = Idle /\ ktp_records = Idle /\ pending = Idle /\ next_id = Idle /\ now = Idle
  /\ files = Idle /\ processing_logs = Idle

\* ------------------------------------------------------------------ validate_ktp_data, called once

ValidateInit ==
  /\ v_pc = "call"
  /\ v_in \in ValidatorRecords
  /\ v_clk \in Clocks
  /\ v_valid = FALSE
  /\ v_out = <<>>
  /\ FuseIdle
  /\ FlowIdle
  /\ UnitIdle
  /\ ConcIdle

\* The call returns (len(errors) == 0, errors).
ValidateCall ==
  /\ v_pc = "call"
  /\ ~validate_ktp_data_raises(v_in)
  /\ LET errors == validate_ktp_data(v_in, v_clk)
     IN v_valid' = (Len(errors) = 0) /\ v_out' = errors
  /\ v_pc' = "done"
  /\ UNCHANGED <<v_in, v_clk, f_pc, f_in, f_out, flow_vars, unit_vars, conc_vars>>

\* The call ends with the exception and returns nothing.
ValidateRaises ==
  /\ v_pc = "call"
  /\ validate_ktp_data_raises(v_in)
  /\ v_pc' = "raised"
  /\ UNCHANGED <<v_in, v_clk, v_valid, v_out, f_pc, f_in, f_out, flow_vars, unit_vars, conc_vars>>

SpecValidate == ValidateInit /\ [][ValidateCall \/ ValidateRaises]_vars

\* ------------------------------------------------------------------ the year expansion, evaluated once

\* The years datetime.now().year is tried with; the 2-digit years are all of 00..99.
FirstCurrentYear == 1990
LastCurrentYear == 2110
CurrentYears == FirstCurrentYear..LastCurrentYear
TwoDigitYears == 0..99

PivotInit ==
  /\ u_pc = "call"
  /\ u_in \in [year : TwoDigitYears, current_year : CurrentYears]
  /\ u_out = <<>>
  /\ ValidatorIdle /\ FuseIdle /\ FlowIdle /\ ConcIdle

\* Both expansions of the same 2-digit year in the same current year.
PivotCall ==
  /\ u_pc = "call"
  /\ u_out' = [full_year |-> FullYear(u_in.year, u_in.current_year),
               year_nik_full |-> YearNikFull(u_in.year, u_in.current_year)]
  /\ u_pc' = "done"
  /\ UNCHANGED <<u_in, v_pc, v_in, v_clk, v_valid, v_out, f_pc, f_in, f_out, flow_vars, conc_vars>>

SpecPivot == PivotInit /\ [][PivotCall]_vars

\* ------------------------------------------------------------------ the decoding of an identity number, done once

\* 16-digit identity numbers decoded: those of the validator's inputs and the
\* two ends of the range.
DecodedNiks == WellShapedNiks \cup {Nik16(0, 0, 0, 0, 0), Nik16(999999, 99, 99, 99, 9999)}

DecodeInit ==
  /\ u_pc = "call"
  /\ u_in \in DecodedNiks
  /\ u_out = <<>>
  /\ ValidatorIdle /\ FuseIdle /\ FlowIdle /\ ConcIdle

DecodeCall ==
  /\ u_pc = "call"
  /\ u_out' = DecodeNik(u_in)
  /\ u_pc' = "decoded"
  /\ UNCHANGED <<u_in, v_pc, v_in, v_clk, v_valid, v_out, f_pc, f_in, f_out, flow_vars, conc_vars>>

SpecDecode == DecodeInit /\ [][DecodeCall]_vars

\* ------------------------------------------------------------------ calculate_confidence_score, called once

\* Scores tried, in hundredths: every fifth value from OverRange below
\* 0.0 to OverRange above 1.0.
OverRange == 50
MaxErrors == 6
Scores == {s \in (0 - OverRange)..(Scale + OverRange) : s % 5 = 0}
ErrorLists == {[i \in 1..n |-> E_NAME] : n \in 0..MaxErrors}

FuseInit ==
  /\ f_pc = "call"
  /\ f_in \in [confidence_score : Scores, validation_errors : ErrorLists,
               image_quality_score : Scores]
  /\ f_out = 0
  /\ ValidatorIdle
  /\ FlowIdle
  /\ UnitIdle
  /\ ConcIdle

FuseCall ==
  /\ f_pc = "call"
  /\ f_out' = calculate_confidence_score(f_in.confidence_score, f_in.validation_errors,
                                         f_in.image_quality_score)
  /\ f_pc' = "done"
  /\ UNCHANGED <<f_in, v_pc, v_in, v_clk, v_valid, v_out, flow_vars, unit_vars, conc_vars>>

SpecFuse == FuseInit /\ [][FuseCall]_vars

\* ------------------------------------------------------------------ KTPData and KTPValidationResult

\* KTPData._is_valid_date_format
_is_valid_date_format(date_str) ==
  LET parts == PySplit(date_str, "-")
  IN /\ Len(parts) = 3
     /\ Len(parts[1]) = 2 /\ Len(parts[2]) = 2 /\ Len(parts[3]) = 4
     /\ AllDigits(parts[1]) /\ AllDigits(parts[2]) /\ AllDigits(parts[3])
     /\ 1 <= DecValue(parts[1]) /\ DecValue(parts[1]) <= 31
     /\ 1 <= DecValue(parts[2]) /\ DecValue(parts[2]) <= 12

\* KTPData(**ktp_data_dict) succeeds: the field constraints and the two validators.
KTPDataAccepts(d) ==
  /\ Len(d.nik) = 16 /\ AllDigits(d.nik)
  /\ Len(d.nama) >= 1 /\ Len(d.nama) <= 255
  /\ d.tanggal_lahir = <<>> \/ _is_valid_date_format(d.tanggal_lahir)
  /\ d.jenis_kelamin \in {None} \cup valid_genders
  /\ d.status_perkawinan \in {None} \cup valid_marital_status
  /\ Len(d.rt_rw) <= 10 /\ Len(d.provinsi) <= 255 /\ Len(d.agama) <= 50

E_EXTRACTOR == "error reported by the extractor"
E_DATA == "Error validating extracted data"
E_CREATE == "Error creating validation result"
E_API == "Error processing dengan Gemini"
E_REGISTERED == "NIK sudah terdaftar dalam database"

\* A KTPValidationResult.  confidence_score is in units of 1/Scale^2, the unit
\* of calculate_confidence_score's result; extracted_data and database_id are
\* <<>> for None and <<value>> otherwise.
KTPValidationResult(is_valid_ktp, confidence_score, extracted_data, validation_errors) ==
  [is_valid_ktp |-> is_valid_ktp, confidence_score |-> confidence_score,
   extracted_data |-> extracted_data, validation_errors |-> validation_errors,
   processing_notes |-> "", database_id |-> <<>>]

\* The result analyze_ktp_with_face returns when the extractor call raises.
ApiErrorResult == KTPValidationResult(FALSE, 0, <<>>, <<E_API>>)

\* result_dict carries confidence_score in hundredths.  A confidence outside
\* [0,1] fails the ge/le constraint of KTPValidationResult: the constructor
\* raises and the except branch answers.
_create_validation_result(result_dict) ==
  LET is_valid == result_dict.is_valid_ktp
      confidence == result_dict.confidence_score
      errors == result_dict.validation_errors
      try_data == is_valid /\ result_dict.extracted_data # <<>>
      data_ok == try_data /\ KTPDataAccepts(result_dict.extracted_data[1])
  IN IF confidence < 0 \/ confidence > Scale
     THEN KTPValidationResult(FALSE, 0, <<>>, <<E_CREATE>>)
     ELSE KTPValidationResult(
            IF try_data /\ ~data_ok THEN FALSE ELSE is_valid,
            confidence * Scale,
            IF data_ok THEN result_dict.extracted_data ELSE <<>>,
            IF try_data /\ ~data_ok THEN Append(errors, E_DATA) ELSE errors)

\* ------------------------------------------------------------------ verify_ktp

\* RevisedValidity with the override one defect later, and one defect earlier.
RevisedValidity_Later(is_valid_ktp, data_valid, validation_errors) ==
  IF ~data_valid /\ Len(validation_errors) > ErrorThreshold + 1 THEN FALSE ELSE is_valid_ktp
RevisedValidity_Earlier(is_valid_ktp, data_valid, validation_errors) ==
  IF ~data_valid /\ Len(validation_errors) >= ErrorThreshold THEN FALSE ELSE is_valid_ktp

\* Lines 100-103: the validity after the defect-count override.
RevisedValidity(is_valid_ktp, data_valid, validation_errors) ==
  IF ~data_valid /\ Len(validation_errors) > ErrorThreshold THEN FALSE ELSE is_valid_ktp

\* ExtendedErrors replacing the result's errors by those of validate_ktp_data.
ExtendedErrors_Replaces(result_errors, data_valid, validation_errors) ==
  IF ~data_valid THEN validation_errors ELSE <<>>

\* Lines 100-101: the error list of the result after validation.
ExtendedErrors(result_errors, data_valid, validation_errors) ==
  IF ~data_valid THEN result_errors \o validation_errors ELSE result_errors

\* Records the extractor returns in the flow: without defect, with one to six
\* defects, and two that KTPData rejects.
FlowRecords ==
  { CleanRecord,
    [CleanRecord EXCEPT !.nama = <<"A">>],
    [CleanRecord EXCEPT !.nama = <<"A">>, !.provinsi = <<"X">>],
    [CleanRecord EXCEPT !.nik = Nik16(0, 1, 2, 90, 0)],
    [CleanRecord EXCEPT !.nik = Nik16(0, 1, 2, 90, 0), !.nama = <<"A">>],
    [CleanRecord EXCEPT !.nik = Nik16(0, 1, 2, 90, 0), !.nama = <<"A">>, !.provinsi = <<"X">>],
    [CleanRecord EXCEPT !.nik = Nik16(320112, 41, 2, 90, 1), !.tanggal_lahir = DateText(31, 12, 2024)],
    BadRecord(Nik16(0, 99, 50, 26, 0), DateText(1, 2, 1990), "LAKI-LAKI"),
    BadRecord(Nik16(320112, 34, 50, 10, 10), <<>>, None),
    [CleanRecord EXCEPT !.nik = Nik15],
    [CleanRecord EXCEPT !.tanggal_lahir = DateText(32, 13, 1990)] }

\* Confidences the extractor reports, in hundredths; two are outside [0,1].
FlowScores == {0 - 10, 0, 25, 50, 90, 95, Scale, Scale + 20}
MaxUpstreamErrors == 2
FlowClocks == {SteadyClock(Today), SteadyClock(NewYearsEve)}

FlowInit ==
  /\ pc = "start"
  /\ raw = <<>>
  /\ upstream = <<>>
  /\ analysis_result = <<>>
  /\ image_quality_score = QualityHigh
  /\ clk \in FlowClocks
  /\ validation = <<>>
  /\ score_call = <<>>
  /\ db \in {{}, {[id |-> 1, nik |-> CleanNik]}}
  /\ logs = <<>>
  /\ calls = <<>>
  /\ ValidatorIdle /\ FuseIdle /\ UnitIdle /\ ConcIdle

\* Lines 77-90 when the extractor answers: image quality, then the analysis.
Analyze ==
  /\ pc = "start"
  /\ \E image_quality_valid \in BOOLEAN, is_valid_ktp \in BOOLEAN, confidence \in FlowScores,
        data \in {<<>>} \cup {<<r>> : r \in FlowRecords}, n \in 0..MaxUpstreamErrors :
       LET result_dict == [is_valid_ktp |-> is_valid_ktp, confidence_score |-> confidence,
                           extracted_data |-> data,
                           validation_errors |-> [i \in 1..n |-> E_EXTRACTOR]]
       IN /\ raw' = <<result_dict>>
          /\ image_quality_score' = IF ~image_quality_valid THEN QualityLow ELSE QualityHigh
          /\ upstream' = _create_validation_result(result_dict)
          /\ analysis_result' = _create_validation_result(result_dict)
  /\ pc' = "analyzed"
  /\ UNCHANGED <<clk, validation, score_call, db, logs, calls, v_pc, v_in, v_clk, v_valid, v_out, f_pc, f_in, f_out, unit_vars, conc_vars>>

\* Lines 77-90 when the extractor call raises.
AnalyzeFails ==
  /\ pc = "start"
  /\ \E image_quality_valid \in BOOLEAN :
       image_quality_score' = IF ~image_quality_valid THEN QualityLow ELSE QualityHigh
  /\ upstream' = ApiErrorResult
  /\ analysis_result' = ApiErrorResult
  /\ pc' = "analyzed"
  /\ UNCHANGED <<raw, clk, validation, score_call, db, logs, calls, v_pc, v_in, v_clk, v_valid, v_out, f_pc, f_in, f_out, unit_vars, conc_vars>>

\* Lines 93-110.
Validate ==
  /\ pc = "analyzed"
  /\ IF analysis_result.is_valid_ktp /\ analysis_result.extracted_data # <<>>
     THEN LET validation_errors == validate_ktp_data(analysis_result.extracted_data[1], clk)
              data_valid == Len(validation_errors) = 0
              errors == ExtendedErrors(analysis_result.validation_errors, data_valid,
                                       validation_errors)
              args == [confidence_score |-> analysis_result.confidence_score \div Scale,
                       validation_errors |-> errors,
                       image_quality_score |-> image_quality_score]
          IN /\ validation' = <<validation_errors>>
             /\ score_call' = <<args>>
             /\ analysis_result' =
                  [analysis_result EXCEPT
                     !.validation_errors = errors,
                     !.is_valid_ktp = RevisedValidity(@, data_valid, validation_errors),
                     !.confidence_score =
                        calculate_confidence_score(args.confidence_score, args.validation_errors,
                                                   args.image_quality_score)]
     ELSE UNCHANGED <<validation, score_call, analysis_result>>
  /\ pc' = "validated"
  /\ UNCHANGED <<raw, upstream, image_quality_score, clk, db, logs, calls,
                 v_pc, v_in, v_clk, v_valid, v_out, f_pc, f_in, f_out, unit_vars, conc_vars>>

\* Variant: a record is saved whenever data was extracted, valid or not.
PersistGuard_DataOnly(result) ==
  result.extracted_data # <<>>

\* Line 115: the request goes on to the database.
PersistGuard(result) ==
  result.is_valid_ktp /\ result.extracted_data # <<>>

\* Variant: the success log is written before save_ktp_data is called.
LoggedOnPath_SuccessBeforeSave(path) ==
  CASE path = "saved" -> <<"SUCCESS">>
    [] path = "registered" -> <<"SUCCESS">>
    [] path = "save_failed" -> <<"SUCCESS", "FAILED">>
    [] path = "invalid" -> <<"INVALID_KTP">>
    [] path = "error" -> <<"FAILED">>

\* The status of each log_processing call a request makes on its path through
\* lines 115-176 (saved, registered, save_failed, invalid) or through the
\* handler of lines 205-220 (error).
LoggedOnPath(path) ==
  CASE path = "saved" -> <<"SUCCESS">>
    [] path = "registered" -> <<"SUCCESS">>
    [] path = "save_failed" -> <<"FAILED">>
    [] path = "invalid" -> <<"INVALID_KTP">>
    [] path = "error" -> <<"FAILED">>

Call(fn, arg, result) == [fn |-> fn, arg |-> arg, result |-> result]
LogCalls(path) ==
  [i \in 1..Len(LoggedOnPath(path)) |-> Call("log_processing", LoggedOnPath(path)[i], None)]

\* Lines 114-176.  check_ok = FALSE: check_nik_exists caught an error and
\* answered False; save_ok = FALSE: save_ktp_data raised; log_ok = FALSE:
\* log_processing caught an error and wrote no row.  A row whose nik is stored
\* already violates the unique index, so that save raises.
Persist ==
  /\ pc = "validated"
  /\ \E check_ok \in BOOLEAN, save_ok \in BOOLEAN, log_ok \in BOOLEAN :
       LET valid == PersistGuard(analysis_result)
           nik == analysis_result.extracted_data[1].nik
           stored == \E row \in db : row.nik = nik
           nik_exists == check_ok /\ stored
           new_id == Cardinality(db) + 1
           path == IF ~valid THEN "invalid"
                   ELSE IF nik_exists THEN "registered"
                   ELSE IF save_ok /\ ~stored THEN "saved"
                   ELSE "save_failed"
           db_calls ==
             IF ~valid THEN <<>>
             ELSE <<Call("check_nik_exists", nik, nik_exists)>>
                  \o (IF nik_exists THEN <<>>
                      ELSE <<Call("save_ktp_data", nik,
                                  IF path = "saved" THEN <<new_id>> ELSE "raised")>>)
       IN /\ analysis_result' =
               CASE path = "registered" ->
                      [analysis_result EXCEPT
                         !.processing_notes = "NIK sudah terdaftar",
                         !.validation_errors = Append(@, E_REGISTERED)]
                 [] path = "saved" -> [analysis_result EXCEPT !.database_id = <<new_id>>]
                 [] path = "save_failed" ->
                      [analysis_result EXCEPT
                         !.processing_notes = "Data valid tapi gagal disimpan"]
                 [] path = "invalid" -> analysis_result
          /\ db' = IF path = "saved" THEN db \cup {[id |-> new_id, nik |-> nik]} ELSE db
          /\ calls' = calls \o db_calls \o LogCalls(path)
          /\ logs' = IF log_ok THEN logs \o LoggedOnPath(path) ELSE logs
  /\ pc' = "done"
  /\ UNCHANGED <<raw, upstream, image_quality_score, clk, validation, score_call,
                 v_pc, v_in, v_clk, v_valid, v_out, f_pc, f_in, f_out, unit_vars, conc_vars>>

\* Lines 80-86 raise after process_upload returned: the handler of lines
\* 205-222 logs the failure and answers with status 500.
UnexpectedError ==
  /\ pc = "start"
  /\ \E log_ok \in BOOLEAN : logs' = IF log_ok THEN logs \o LoggedOnPath("error") ELSE logs
  /\ calls' = calls \o LogCalls("error")
  /\ pc' = "error"
  /\ UNCHANGED <<raw, upstream, analysis_result, image_quality_score, clk, validation,
                 score_call, db, v_pc, v_in, v_clk, v_valid, v_out, f_pc, f_in, f_out,
                 unit_vars, conc_vars>>

Next == Analyze \/ AnalyzeFails \/ UnexpectedError \/ Validate \/ Persist

Spec == FlowInit /\ [][Next]_vars

\* ------------------------------------------------------------------ verify_ktp, concurrent requests

NumRequests == 2
MaxSecond == 1
Requests == 1..NumRequests
Seconds == 0..MaxSecond

OtherNik == Nik16(320112, 41, 2, 90, 2)
ConcurrentNiks == {CleanNik, OtherNik}

\* A request at line 71 of endpoints.py.
StartedRequest ==
  [pc |-> "start", is_valid_ktp |-> FALSE, extracted_data |-> <<>>, face_image_path |-> <<>>,
   nik_exists |-> FALSE, row_id |-> <<>>, database_id |-> <<>>, path |-> <<>>]

\* gemini_service.py line 381.
FaceFilename(timestamp) == <<"face_", timestamp, ".jpg">>

\* Variant: the table has no unique index on nik.
UniqueViolation_NoIndex(nik, rows) ==
  FALSE

\* database_service.py line 31: the unique index on KTPRecord.nik refuses a
\* row whose nik is that of a row of the table.
UniqueViolation(nik, rows) ==
  \E row \in rows : row.nik = nik

\* The results analyze_ktp_with_face and lines 93-110 can leave a request with.
AnalyzedRequests ==
  {[StartedRequest EXCEPT !.pc = "analyzed", !.is_valid_ktp = is_valid_ktp,
                          !.extracted_data = data] :
     is_valid_ktp \in BOOLEAN, data \in {<<>>} \cup {<<[nik |-> n]>> : n \in ConcurrentNiks}}

\* Requests at line 112 of endpoints.py, over a table that is empty or holds
\* one record.
ConcInit ==
  /\ reqs \in [Requests -> AnalyzedRequests]
  /\ ktp_records \in {{}, {[id |-> 1, nik |-> CleanNik]}}
  /\ pending = {}
  /\ next_id = Cardinality(ktp_records) + 1
  /\ now = Idle
  /\ files = Idle
  /\ processing_logs = <<>>
  /\ ValidatorIdle /\ FuseIdle /\ FlowIdle /\ UnitIdle

\* Requests at line 71 of endpoints.py, and no face picture on disk.
FaceInit ==
  /\ reqs = [r \in Requests |-> StartedRequest]
  /\ now = 0
  /\ files = {}
  /\ ktp_records = Idle /\ pending = Idle /\ next_id = Idle /\ processing_logs = Idle
  /\ ValidatorIdle /\ FuseIdle /\ FlowIdle /\ UnitIdle

\* time.time() moves on to the next whole second.
Tick ==
  /\ now < MaxSecond
  /\ now' = now + 1
  /\ UNCHANGED <<reqs, ktp_records, pending, next_id, files, processing_logs,
                 v_pc, v_in, v_clk, v_valid, v_out, f_pc, f_in, f_out, flow_vars, unit_vars>>

\* endpoints.py lines 77-112 with gemini_service.py lines 303-390: the
\* analysis answers with a validity and a record, and when a face was found
\* and cropped its picture is written to the file named after the second read
\* at line 380.  crop_ok = FALSE: line 373-385 raised, handled at line 347.
AnalyzeWithFace(r) ==
  /\ reqs[r].pc = "start"
  /\ \E is_valid_ktp \in BOOLEAN, data \in {<<>>} \cup {<<[nik |-> n]>> : n \in ConcurrentNiks},
        found \in BOOLEAN, crop_ok \in BOOLEAN :
       LET timestamp == now
           file_path == FaceFilename(timestamp)
           saved == found /\ crop_ok
       IN /\ files' = IF saved
                      THEN {f \in files : f.path # file_path}
                             \cup {[path |-> file_path, crop |-> r]}
                      ELSE files
          /\ reqs' = [reqs EXCEPT ![r] =
                        [@ EXCEPT !.pc = "analyzed", !.is_valid_ktp = is_valid_ktp,
                                  !.extracted_data = data,
                                  !.face_image_path = IF saved THEN <<file_path>> ELSE <<>>]]
  /\ UNCHANGED <<ktp_records, pending, next_id, now, processing_logs,
                 v_pc, v_in, v_clk, v_valid, v_out, f_pc, f_in, f_out, flow_vars, unit_vars>>

\* endpoints.py lines 115 and 167: the request is not stored.
SkipStore(r) ==
  /\ reqs[r].pc = "analyzed"
  /\ ~PersistGuard(reqs[r])
  /\ reqs' = [reqs EXCEPT ![r] = [@ EXCEPT !.pc = "logging", !.path = <<"invalid">>]]
  /\ UNCHANGED <<ktp_records, pending, next_id, now, files, processing_logs,
                 v_pc, v_in, v_clk, v_valid, v_out, f_pc, f_in, f_out, flow_vars, unit_vars>>

\* endpoints.py lines 118-123 with database_service.py lines 190-210: the
\* count reads the committed rows; check_ok = FALSE: the query raised and
\* check_nik_exists answered False.
CheckNikExists(r) ==
  /\ reqs[r].pc = "analyzed"
  /\ PersistGuard(reqs[r])
  /\ \E check_ok \in BOOLEAN :
       LET nik == reqs[r].extracted_data[1].nik
           nik_exists == check_ok /\ (\E row \in ktp_records : row.nik = nik)
       IN reqs' = [reqs EXCEPT ![r] =
                     IF nik_exists
                     THEN [@ EXCEPT !.pc = "logging", !.nik_exists = TRUE,
                                    !.path = <<"registered">>]
                     ELSE [@ EXCEPT !.pc = "checked"]]
  /\ UNCHANGED <<ktp_records, pending, next_id, now, files, processing_logs,
                 v_pc, v_in, v_clk, v_valid, v_out, f_pc, f_in, f_out, flow_vars, unit_vars>>

\* database_service.py lines 148-178: session.add and flush send the INSERT.
\* The unique index refuses it when a committed row has the nik, and makes it
\* wait while another session's uncommitted row has the nik.  save_ok = FALSE:
\* the statement raised for any other reason, a lock timeout included.
SaveFlush(r) ==
  /\ reqs[r].pc = "checked"
  /\ \E save_ok \in BOOLEAN :
       LET nik == reqs[r].extracted_data[1].nik
       IN IF save_ok /\ ~UniqueViolation(nik, ktp_records)
          THEN /\ ~UniqueViolation(nik, pending)
               /\ pending' = pending \cup {[id |-> next_id, nik |-> nik]}
               /\ next_id' = next_id + 1
               /\ reqs' = [reqs EXCEPT ![r] = [@ EXCEPT !.pc = "flushed", !.row_id = <<next_id>>]]
          ELSE /\ reqs' = [reqs EXCEPT ![r] =
                             [@ EXCEPT !.pc = "logging", !.path = <<"save_failed">>]]
               /\ UNCHANGED <<pending, next_id>>
  /\ UNCHANGED <<ktp_records, now, files, processing_logs,
                 v_pc, v_in, v_clk, v_valid, v_out, f_pc, f_in, f_out, flow_vars, unit_vars>>

\* database_service.py lines 180-184 with get_session, lines 126-133, and
\* endpoints.py line 141: the return leaves the session block, which commits;
\* commit_ok = FALSE: the commit raised, the session rolled back and
\* save_ktp_data raised.
SaveCommit(r) ==
  /\ reqs[r].pc = "flushed"
  /\ \E commit_ok \in BOOLEAN :
       LET row == CHOOSE p \in pending : <<p.id>> = reqs[r].row_id
       IN /\ pending' = pending \ {row}
          /\ ktp_records' = IF commit_ok THEN ktp_records \cup {row} ELSE ktp_records
          /\ reqs' = [reqs EXCEPT ![r] =
                        IF commit_ok
                        THEN [@ EXCEPT !.pc = "logging", !.database_id = <<row.id>>,
                                       !.path = <<"saved">>]
                        ELSE [@ EXCEPT !.pc = "logging", !.path = <<"save_failed">>]]
  /\ UNCHANGED <<next_id, now, files, processing_logs,
                 v_pc, v_in, v_clk, v_valid, v_out, f_pc, f_in, f_out, flow_vars, unit_vars>>

\* endpoints.py lines 145-176 with database_service.py lines 318-339.
LogProcessing(r) ==
  /\ reqs[r].pc = "logging"
  /\ \E log_ok \in BOOLEAN :
       processing_logs' = IF log_ok
                          THEN processing_logs \o LoggedOnPath(reqs[r].path[1])
                          ELSE processing_logs
  /\ reqs' = [reqs EXCEPT ![r] = [@ EXCEPT !.pc = "done"]]
  /\ UNCHANGED <<ktp_records, pending, next_id, now, files,
                 v_pc, v_in, v_clk, v_valid, v_out, f_pc, f_in, f_out, flow_vars, unit_vars>>

AnalyzeStep == \E r \in Requests : AnalyzeWithFace(r)

FaceNext == Tick \/ AnalyzeStep

SpecFaces == FaceInit /\ [][FaceNext]_vars

SkipStep == \E r \in Requests : SkipStore(r)
CheckStep == \E r \in Requests : CheckNikExists(r)
FlushStep == \E r \in Requests : SaveFlush(r)
CommitStep == \E r \in Requests : SaveCommit(r)
LogStep == \E r \in Requests : LogProcessing(r)

ConcNext == SkipStep \/ CheckStep \/ FlushStep \/ CommitStep \/ LogStep

SpecConcurrent == ConcInit /\ [][ConcNext]_vars

\* ------------------------------------------------------------------ properties

Validated == pc \in {"validated", "done"} /\ validation # <<>>
ValidateCount == Len(validation[1])
FuseDone == f_pc = "done"
Clamp01(s) == Max(0, Min(Scale, s))
Clamp01Sq(p) == Max(0, Min(Scale * Scale, p))
InUnit(s) == 0 <= s /\ s <= Scale
FusedWith(validation_errors) ==
  calculate_confidence_score(f_in.confidence_score, validation_errors, f_in.image_quality_score)

\* C1: in the verify flow, when validate_ktp_data yields more than 3 defects
\* the final is_valid_ktp is false, whatever the confidence, the image-quality
\* score and the upstream flag were.
C1_ManyDefectsForceInvalid ==
  (Validated /\ ValidateCount > ErrorThreshold) => ~analysis_result.is_valid_ktp

\* A request whose extractor said valid with confidence 1.0, on a good image,
\* whose record has more than 3 defects: it ends invalid.
C1_Witness ==
  /\ Validated /\ ValidateCount > ErrorThreshold
  /\ upstream.is_valid_ktp /\ upstream.confidence_score = Scale * Scale
  /\ image_quality_score = QualityHigh
  /\ ~analysis_result.is_valid_ktp

\* C2: with 3 or fewer defects the final validity is the upstream validity,
\* and an upstream validity of false never becomes true.
C2_OnlyDowngrades ==
  pc \in {"validated", "done"} =>
    /\ (validation # <<>> /\ ValidateCount <= ErrorThreshold)
         => analysis_result.is_valid_ktp = upstream.is_valid_ktp
    /\ ~upstream.is_valid_ktp => ~analysis_result.is_valid_ktp

\* A record with exactly 3 defects keeps the upstream validity.
C2_Witness ==
  /\ Validated /\ ValidateCount = ErrorThreshold
  /\ upstream.is_valid_ktp /\ analysis_result.is_valid_ktp

\* C3: calculate_confidence_score returns a value in [0,1] for every input,
\* negative and greater-than-1 inputs included.
C3_ResultInUnitInterval ==
  FuseDone => (0 <= f_out /\ f_out <= Scale * Scale)

\* A call with a confidence above 1 and a negative image quality.
C3_Witness ==
  /\ FuseDone
  /\ f_in.confidence_score > Scale /\ f_in.image_quality_score < 0
  /\ f_out = 0

\* C4: for fixed confidence and fixed image quality >= 0, one more defect
\* never raises the fused confidence.
C4_MonotoneForNonNegativeQuality ==
  (FuseDone /\ f_in.image_quality_score >= 0)
    => FusedWith(Append(f_in.validation_errors, E_NAME)) <= f_out

\* A call where one more defect strictly lowers the result.
C4_Witness ==
  /\ FuseDone /\ f_in.image_quality_score >= 0
  /\ FusedWith(Append(f_in.validation_errors, E_NAME)) < f_out

\* C4 as claimed: monotone for any confidence and any image quality.
C4_MonotoneForAnyInput ==
  FuseDone => FusedWith(Append(f_in.validation_errors, E_NAME)) <= f_out

\* C5: the penalty is min(0.3, 0.1 * defects), never above 0.3, so for inputs
\* in [0,1] the result is at least max(0, (confidence - 0.3) * quality).
C5_PenaltyCapped ==
  FuseDone =>
    LET penalty == error_penalty(f_in.validation_errors)
    IN /\ penalty = Min(PenaltyCap, PenaltyPerError * Len(f_in.validation_errors))
       /\ penalty <= PenaltyCap
       /\ (InUnit(f_in.confidence_score) /\ InUnit(f_in.image_quality_score))
            => f_out >= Max(0, (f_in.confidence_score - PenaltyCap) * f_in.image_quality_score)

\* A call with more than 3 defects that lands on the floor, above 0.
C5_Witness ==
  /\ FuseDone /\ Len(f_in.validation_errors) > 3
  /\ InUnit(f_in.confidence_score) /\ InUnit(f_in.image_quality_score)
  /\ f_out = (f_in.confidence_score - PenaltyCap) * f_in.image_quality_score
  /\ f_out > 0

\* C6 as amended: no input is rejected or clamped; only the result is
\* clamped, so the result is clamp01((confidence - penalty) * quality) on the
\* raw values for every input.
C6_ClampsResultOnly ==
  FuseDone =>
    f_out = Clamp01Sq((f_in.confidence_score
                         - Min(PenaltyCap, PenaltyPerError * Len(f_in.validation_errors)))
                      * f_in.image_quality_score)

\* A confidence above 1 whose result differs from that of the clamped confidence.
C6_Witness ==
  /\ FuseDone /\ f_in.confidence_score > Scale /\ InUnit(f_in.image_quality_score)
  /\ f_out # calculate_confidence_score(Clamp01(f_in.confidence_score),
                                        f_in.validation_errors, f_in.image_quality_score)

\* C6 as claimed: the result is that of the inputs clamped to [0,1].
C6_ClampsInputs ==
  FuseDone =>
    /\ f_out = calculate_confidence_score(Clamp01(f_in.confidence_score),
                                          f_in.validation_errors, f_in.image_quality_score)
    /\ f_out = calculate_confidence_score(f_in.confidence_score, f_in.validation_errors,
                                          Clamp01(f_in.image_quality_score))

C8_PenalizedCountIncludesUpstream ==
  score_call # <<>> =>
    /\ validation # <<>>
    /\ score_call[1].validation_errors = upstream.validation_errors \o validation[1]
    /\ Len(score_call[1].validation_errors)
         = Len(upstream.validation_errors) + ValidateCount
    /\ analysis_result.is_valid_ktp = (ValidateCount <= ErrorThreshold)

\* A request whose extractor reported errors of its own and whose record has defects.
C8_Witness ==
  /\ score_call # <<>> /\ validation # <<>>
  /\ Len(upstream.validation_errors) > 0 /\ ValidateCount > 0
  /\ Len(score_call[1].validation_errors) > ValidateCount

\* C8 as claimed: the penalized count is the defect count of validate_ktp_data.
C8_PenalizedCountIsValidateCount ==
  score_call # <<>> =>
    (validation # <<>> /\ Len(score_call[1].validation_errors) = ValidateCount)

ValidateDone == v_pc = "done"
ExactlySixteenDigits(nik) == Len(nik) = 16 /\ AllDigits(nik)
Emitted(e) == \E i \in 1..Len(v_out) : v_out[i] = e
NikRuleDefects == {E_NIK_EMPTY, E_NIK_SHAPE, E_NIK_REGION, E_NIK_DATE, E_NIK_SEQ}
IsNikRuleDefect(e) == e \in NikRuleDefects
EmittedNikDefects == SelectSeq(v_out, IsNikRuleDefect)

\* C9: for an identity number that is absent, empty or not exactly 16 digits
\* the identity-number rules emit exactly one shape defect and no region,
\* embedded-date or sequence defect.
C9_MalformedNikOneShapeDefect ==
  (ValidateDone /\ ~ExactlySixteenDigits(v_in.nik))
    => EmittedNikDefects \in {<<E_NIK_EMPTY>>, <<E_NIK_SHAPE>>}

\* C10: the two cross-validation rules emit nothing when the identity number
\* is not exactly 16 digits, whatever the declared sex and birth date.
C10_NoCrossDefectForMalformedNik ==
  (ValidateDone /\ ~ExactlySixteenDigits(v_in.nik))
    => (~Emitted(E_X_GENDER) /\ ~Emitted(E_X_DATE))

\* ---- what the propositions below read off the record and the returned list

WellShaped == ExactlySixteenDigits(v_in.nik)
NikDay == DecValue(SubSeq(v_in.nik, 7, 8))
NikMonth == DecValue(SubSeq(v_in.nik, 9, 10))
NikYear == DecValue(SubSeq(v_in.nik, 11, 12))
DeOffset(day) == IF day > 40 THEN day - 40 ELSE day
PivotExpand(yy, currentYear) ==
  IF yy <= (currentYear - 1900) % 100 THEN 2000 + yy ELSE 1900 + yy
SexDeclared == v_in.jenis_kelamin # None
SexMismatch == (NikDay > 40) # (v_in.jenis_kelamin = "PEREMPUAN")
Count(e) == Cardinality({i \in 1..Len(v_out) : v_out[i] = e})
OneIf(b) == IF b THEN 1 ELSE 0

\* C11: for a well-shaped identity number and a declared sex, the sex-mismatch
\* defect is in the returned list exactly when "raw embedded day > 40" and
\* "declared sex is PEREMPUAN" differ, whether or not a birth date is declared.
C11_SexMismatchIffDayAndSexDiffer ==
  (ValidateDone /\ WellShaped /\ SexDeclared) => (Emitted(E_X_GENDER) <=> SexMismatch)

\* C12: when the embedded date of a well-shaped identity number is itself
\* rejected by the embedded-date rule, the sex cross-check is still made and
\* its outcome is the one the raw "day > 40" test gives.
C12_SexCheckedWhenEmbeddedDateRejected ==
  (ValidateDone /\ WellShaped /\ SexDeclared /\ Emitted(E_NIK_DATE))
    => (Emitted(E_X_GENDER) <=> SexMismatch)

\* The embedded date is one the embedded-date rule must reject: the pivot uses
\* the year of the reading taken for it, the comparison the reading taken next.
IsCalendarDate(y, m, d) == m \in 1..12 /\ d >= 1 /\ d <= DaysInMonth(y, m)
EmbeddedDateBad ==
  LET day == DeOffset(NikDay)
      year == PivotExpand(NikYear, v_clk.c186.y)
  IN \/ day < 1 \/ day > 31
     \/ NikMonth < 1 \/ NikMonth > 12
     \/ ~IsCalendarDate(year, NikMonth, day)
     \/ DateAfter(year, NikMonth, day, v_clk.c196)
ExampleNik13 == Nik16(320112, 34, 50, 10, 10)

\* C13: for a well-shaped identity number the embedded-date defect is returned
\* once if the de-offset day is outside 1..31, the month outside 1..12, the
\* date with the pivot-expanded year not a calendar date, or that date after
\* the current time, and not at all otherwise; 3201123450100010 gets that one
\* defect and no region or sequence defect.
C13_EmbeddedDateDefectIffBad ==
  /\ (ValidateDone /\ WellShaped) => Count(E_NIK_DATE) = OneIf(EmbeddedDateBad)
  /\ (ValidateDone /\ v_in.nik = ExampleNik13) => EmittedNikDefects = <<E_NIK_DATE>>
C13_Witness == ValidateDone /\ v_in.nik = ExampleNik13 /\ Count(E_NIK_DATE) = 1

\* The number of 2-digit region segments (province, regency, district) that are "00".
ZeroSegments == Cardinality({k \in 0..2 : SubSeq(v_in.nik, 2 * k + 1, 2 * k + 2) = <<"0", "0">>})

\* C14 as stated: a well-shaped identity number gets one region defect for
\* each of its three region segments that is "00".
C14_OneDefectPerZeroSegment ==
  (ValidateDone /\ WellShaped) => Count(E_NIK_REGION) = ZeroSegments

\* C14 amended: a well-shaped identity number gets a single region defect when
\* at least one region segment is "00", however many are, and none otherwise.
C14_OneDefectForAnyZeroSegment ==
  (ValidateDone /\ WellShaped) => Count(E_NIK_REGION) = OneIf(ZeroSegments > 0)
C14_Witness == ValidateDone /\ WellShaped /\ ZeroSegments = 3 /\ Count(E_NIK_REGION) = 1

\* The declared birth date as split('-') and int() read it.
DateDeclared == v_in.tanggal_lahir # <<>>
DeclaredParts == PySplit(v_in.tanggal_lahir, "-")
DeclaredParses ==
  DateDeclared /\ Len(DeclaredParts) = 3 /\ \A i \in 1..3 : PyIntOk(DeclaredParts[i])
Declared(i) == DecValue(PyStrip(DeclaredParts[i]))
DatesDiffer ==
  \/ DeOffset(NikDay) # Declared(1)
  \/ NikMonth # Declared(2)
  \/ PivotExpand(NikYear, v_clk.c321.y) # Declared(3)

\* C15: for a well-shaped identity number and a declared birth date that parses
\* as three integers, the returned list holds the date-mismatch defect once if
\* (de-offset day, month, pivot-expanded year) of the identity number differs
\* from the declared (day, month, year) in a component, and not at all if the
\* three agree.
C15_DateMismatchIffComponentsDiffer ==
  (ValidateDone /\ WellShaped /\ DeclaredParses) => Count(E_X_DATE) = OneIf(DatesDiffer)
C15_Witness ==
  /\ ValidateDone /\ WellShaped /\ DeclaredParses
  /\ NikDay > 40 /\ DeOffset(NikDay) = Declared(1)
  /\ DatesDiffer /\ Count(E_X_DATE) = 1

\* C16: for a declared birth date that does not parse as three integers
\* separated by '-', the returned list holds no date-mismatch defect, holds the
\* format defect of the declared-date rule exactly once, and a declared sex is
\* still compared with a well-shaped identity number.
C16_ParseFailureReportedOnce ==
  (ValidateDone /\ DateDeclared /\ ~DeclaredParses) =>
    /\ Count(E_X_DATE) = 0
    /\ Count(E_DATE_FORMAT) = 1
    /\ (WellShaped /\ SexDeclared) => (Emitted(E_X_GENDER) <=> SexMismatch)
C16_Witness ==
  /\ ValidateDone /\ DateDeclared /\ ~DeclaredParses /\ WellShaped
  /\ Count(E_DATE_FORMAT) = 1 /\ Emitted(E_X_GENDER)

FieldRuleDefects ==
  {E_NAME, E_DAY, E_MONTH, E_YEAR, E_FUTURE, E_DATE, E_DATE_FORMAT, E_GENDER, E_PROVINCE,
   E_RELIGION, E_MARITAL, E_RT_RW}
IsFieldRuleDefect(e) == e \in FieldRuleDefects
FieldNames ==
  <<"nama", "tanggal_lahir", "jenis_kelamin", "provinsi", "agama", "status_perkawinan", "rt_rw">>
DefectsOfFieldAlone(f) ==
  SelectSeq(validate_ktp_data([CleanRecord EXCEPT ![f] = v_in[f]], v_clk), IsFieldRuleDefect)
RECURSIVE DefectsOfFieldsAlone(_)
DefectsOfFieldsAlone(n) ==
  IF n = 0 THEN <<>> ELSE DefectsOfFieldsAlone(n - 1) \o DefectsOfFieldAlone(FieldNames[n])

\* C18: no rule is skipped because of an earlier defect: a well-shaped identity
\* number gets the region defect, the embedded-date defect and the sequence
\* defect for each of the three rules it violates, and the returned list holds
\* for every field the defects that field gets on its own.
C18_NoShortCircuit ==
  ValidateDone =>
    /\ WellShaped =>
         /\ ZeroSegments > 0 => Emitted(E_NIK_REGION)
         /\ EmbeddedDateBad => Emitted(E_NIK_DATE)
         /\ SubSeq(v_in.nik, 13, 16) = <<"0", "0", "0", "0">> => Emitted(E_NIK_SEQ)
    /\ SelectSeq(v_out, IsFieldRuleDefect) = DefectsOfFieldsAlone(Len(FieldNames))
C18_Witness ==
  /\ ValidateDone /\ WellShaped
  /\ ZeroSegments > 0 /\ EmbeddedDateBad /\ SubSeq(v_in.nik, 13, 16) = <<"0", "0", "0", "0">>
  /\ Emitted(E_NIK_REGION) /\ Emitted(E_NIK_DATE) /\ Emitted(E_NIK_SEQ)
  /\ Emitted(E_NAME) /\ Emitted(E_DAY) /\ Emitted(E_PROVINCE) /\ Emitted(E_RELIGION)
  /\ Emitted(E_RT_RW)

\* The place of each defect's rule in the order of evaluation.
RuleOrder(e) ==
  CASE e \in {E_NIK_EMPTY, E_NIK_SHAPE} -> 1
    [] e = E_NIK_REGION -> 2
    [] e = E_NIK_DATE -> 3
    [] e = E_NIK_SEQ -> 4
    [] e = E_NAME -> 5
    [] e \in {E_DAY, E_MONTH, E_YEAR, E_FUTURE, E_DATE, E_DATE_FORMAT} -> 6
    [] e = E_GENDER -> 7
    [] e = E_PROVINCE -> 8
    [] e = E_RELIGION -> 9
    [] e = E_MARITAL -> 10
    [] e = E_RT_RW -> 11
    [] e = E_X_GENDER -> 12
    [] e = E_X_DATE -> 13

\* C19: the returned list is in the order of the rules: identity number (shape,
\* or region, embedded date, sequence), name, declared birth date, sex, province,
\* religion, marital status, RT/RW, sex cross-check, date cross-check. Only the
\* declared-birth-date rule has more than one defect in it.
C19_DefectsInRuleOrder ==
  ValidateDone =>
    \A i, j \in 1..Len(v_out) :
      i < j => \/ RuleOrder(v_out[i]) < RuleOrder(v_out[j])
               \/ RuleOrder(v_out[i]) = 6 /\ RuleOrder(v_out[j]) = 6
C19_Witness ==
  /\ ValidateDone
  /\ Emitted(E_NIK_REGION) /\ Emitted(E_NIK_SEQ) /\ Emitted(E_NAME) /\ Emitted(E_RT_RW)
  /\ Emitted(E_X_GENDER) /\ Emitted(E_X_DATE)

\* C20: the call never ends with an exception, and the flag it returns is true
\* exactly when the defect list it returns is empty.
C20_NeverRaises ==
  /\ v_pc # "raised"
  /\ ValidateDone => (v_valid <=> v_out = <<>>)

PivotDone == u_pc = "done"

\* C21: the embedded-date rule and the date cross-validation expand a 2-digit
\* year in the same current year to the same full year: 2000 + yy if
\* yy <= (currentYear - 1900) mod 100, and 1900 + yy otherwise.
C21_SameExpansionInBothRules ==
  PivotDone =>
    /\ u_out.full_year = u_out.year_nik_full
    /\ u_out.full_year = PivotExpand(u_in.year, u_in.current_year)
C21_Witness ==
  /\ PivotDone /\ u_in.year = (u_in.current_year - 1900) % 100
  /\ u_out.full_year = 2000 + u_in.year /\ u_out.year_nik_full = 2000 + u_in.year

\* C30: in a current year of 2000..2099 the expansion of every 2-digit year,
\* in both rules, is above currentYear - 100 and not above currentYear.
C30_ExpandedYearInWindow ==
  (PivotDone /\ u_in.current_year >= 2000 /\ u_in.current_year <= 2099) =>
    /\ u_out.full_year > u_in.current_year - 100 /\ u_out.full_year <= u_in.current_year
    /\ u_out.year_nik_full > u_in.current_year - 100
    /\ u_out.year_nik_full <= u_in.current_year
C30_Witness ==
  /\ PivotDone /\ u_in.current_year = 2025 /\ u_in.year = 26
  /\ u_out.full_year = 1926 /\ u_out.year_nik_full = 1926

\* The current-time values one call read.
ReadingsTaken == {v_clk[Readings[i]] : i \in 1..Len(Readings)}

\* C22: the defect list a call returns is the one a single current-time value
\* gives for the record: every time-dependent check of the call (pivot year,
\* year upper bound, not in the future) used the same current time.
C22_OneCurrentTimePerCall ==
  ValidateDone => \E t \in ReadingsTaken : v_out = validate_ktp_data(v_in, SteadyClock(t))

\* The 16 digits written from decoded segments: each number as two decimal
\* digits, 40 added back to the day of a female bearer.
EncodeNik(d) ==
  d.provinsi \o d.kabupaten_kota \o d.kecamatan
  \o Dig(IF d.is_female_nik THEN d.day_nik + 40 ELSE d.day_nik, 2)
  \o Dig(d.month_nik, 2) \o Dig(d.year_nik, 2) \o d.nomor_urut

\* C23: writing the decoded segments of a 16-digit identity number back gives
\* the identity number, digit for digit.
C23_DecodeEncodeRoundTrip == u_pc = "decoded" => EncodeNik(u_out) = u_in
C23_Witness ==
  /\ u_pc = "decoded" /\ u_out.is_female_nik /\ u_out.day_nik = 31
  /\ EncodeNik(u_out) = u_in

\* The declared province after upper-casing and trimming, and whether it is a
\* listed name, a part of one, or contains one.
ProvinceDeclared == v_in.provinsi # <<>>
NormalProvince == PyStrip(PyUpper(v_in.provinsi))
ProvinceListed == \E i \in 1..Len(valid_provinces) : valid_provinces[i] = NormalProvince
ProvinceAccepted ==
  \E i \in 1..Len(valid_provinces) :
    \/ valid_provinces[i] = NormalProvince
    \/ PyContains(valid_provinces[i], NormalProvince)
    \/ PyContains(NormalProvince, valid_provinces[i])

\* C24: a present province gets no defect exactly when, upper-cased and
\* trimmed, it is a listed name, a substring of a listed name, or contains a
\* listed name; any other present province gets one province defect; "JAWA
\* BARAT" gets none.
C24_ProvinceDefectIffNoMatch ==
  /\ (ValidateDone /\ ProvinceDeclared) => Count(E_PROVINCE) = OneIf(~ProvinceAccepted)
  /\ (ValidateDone /\ v_in.provinsi = CleanRecord.provinsi) => Count(E_PROVINCE) = 0
C24_Witness ==
  /\ ValidateDone /\ ProvinceDeclared /\ ~ProvinceListed /\ ProvinceAccepted
  /\ NormalProvince # <<>> /\ Count(E_PROVINCE) = 0

\* C25: the name defect is returned exactly when the name is absent or empty
\* or has fewer than 2 characters once surrounding whitespace is trimmed; "AN"
\* gets none.
C25_NameDefectIffTooShort ==
  /\ ValidateDone => Count(E_NAME) = OneIf(v_in.nama = <<>> \/ Len(PyStrip(v_in.nama)) < 2)
  /\ (ValidateDone /\ v_in.nama = <<"A", "N">>) => Count(E_NAME) = 0
C25_Witness ==
  ValidateDone /\ Len(v_in.nama) >= 2 /\ Len(PyStrip(v_in.nama)) < 2 /\ Count(E_NAME) = 1

CallsTo(fn) == SelectSeq(calls, LAMBDA c : c.fn = fn)
SaveInvoked == Len(CallsTo("save_ktp_data")) > 0
ReportedExisting ==
  \E i \in 1..Len(calls) : calls[i].fn = "check_nik_exists" /\ calls[i].result = TRUE
TooManyDefects == validation # <<>> /\ ValidateCount > ErrorThreshold

\* C26: save_ktp_data is invoked for a request only if its final validity is
\* true, extracted data is present and check_nik_exists, called just before,
\* answered false; a request whose record has more than 3 defects, or whose
\* NIK was reported as existing, makes no save call, leaves the stored records
\* as they were and ends without a database_id.
C26_SaveOnlyWhenValidAndUnregistered ==
  /\ [](\A i \in 1..Len(calls) :
          calls[i].fn = "save_ktp_data" =>
            /\ analysis_result.is_valid_ktp
            /\ analysis_result.extracted_data # <<>>
            /\ i > 1
            /\ calls[i - 1].fn = "check_nik_exists"
            /\ calls[i - 1].arg = analysis_result.extracted_data[1].nik
            /\ calls[i - 1].result = FALSE)
  /\ []((pc = "done" /\ (TooManyDefects \/ ReportedExisting)) =>
          ~SaveInvoked /\ analysis_result.database_id = <<>>)
  /\ [][(pc' = "done" /\ (TooManyDefects' \/ ReportedExisting')) => db' = db]_vars
  /\ [][db' # db => SaveInvoked' /\ analysis_result'.database_id # <<>>]_vars

\* A valid request whose NIK is not stored is saved and gets its id.
C26_Witness ==
  /\ pc = "done" /\ SaveInvoked /\ analysis_result.database_id # <<>>
  /\ \E row \in db : <<row.id>> = analysis_result.database_id
                     /\ row.nik = analysis_result.extracted_data[1].nik

\* A request with more than 3 defects and a request whose NIK was reported as
\* existing both end without a save.
C26_WitnessRefused ==
  pc = "done" /\ ~SaveInvoked /\ analysis_result.extracted_data # <<>>
  /\ (TooManyDefects \/ ReportedExisting)

\* C28: a request that got past image processing has called log_processing
\* exactly once when it ends, whether it returns or fails with status 500, and
\* the status logged is INVALID_KTP exactly when the request returns with a
\* final validity of false or without extracted data.
C28_LoggedExactlyOnce ==
  /\ pc \in {"done", "error"} => Len(CallsTo("log_processing")) = 1
  /\ pc \notin {"done", "error"} => Len(CallsTo("log_processing")) = 0
  /\ pc = "done" =>
       (CallsTo("log_processing")[1].arg = "INVALID_KTP"
          <=> (~analysis_result.is_valid_ktp \/ analysis_result.extracted_data = <<>>))
  /\ pc = "error" => CallsTo("log_processing")[1].arg = "FAILED"
  /\ Len(logs) <= 1
  /\ \A i \in 1..Len(logs) : logs[i] = CallsTo("log_processing")[1].arg

\* The save of a valid request raised: the one log call says FAILED.
C28_Witness ==
  /\ pc = "done"
  /\ \E i \in 1..Len(calls) : calls[i].fn = "save_ktp_data" /\ calls[i].result = "raised"
  /\ Len(CallsTo("log_processing")) = 1
  /\ logs = <<"FAILED">>

RowsOf(nik) == {row \in ktp_records : row.nik = nik}
Carries(r, nik) == reqs[r].extracted_data # <<>> /\ reqs[r].extracted_data[1].nik = nik
HoldersOf(nik) == {r \in Requests : Carries(r, nik) /\ reqs[r].database_id # <<>>}
Returned(r) == reqs[r].pc = "done"

\* C27: whatever the interleaving of the requests that carry one NIK, at most
\* one record with that NIK is stored and at most one of the requests gets a
\* database_id, which is the id of that record; every other such request that
\* went on to the database returns without a database_id, by the already
\* registered path or by the save failure path.
C27_OneRecordPerNik ==
  \A nik \in ConcurrentNiks :
    /\ Cardinality(RowsOf(nik)) <= 1
    /\ Cardinality(HoldersOf(nik)) <= 1
    /\ \A r \in HoldersOf(nik) : \E row \in RowsOf(nik) : <<row.id>> = reqs[r].database_id
    /\ \A r \in Requests :
         (Carries(r, nik) /\ PersistGuard(reqs[r]) /\ Returned(r) /\ r \notin HoldersOf(nik))
           => /\ reqs[r].database_id = <<>>
              /\ reqs[r].path \in {<<"registered">>, <<"save_failed">>}

\* Two requests with one NIK both passed check_nik_exists with the answer
\* false; one was saved and the other failed to save.
C27_Witness ==
  \E r1, r2 \in Requests :
    /\ r1 # r2 /\ Returned(r1) /\ Returned(r2)
    /\ Carries(r1, OtherNik) /\ Carries(r2, OtherNik)
    /\ reqs[r1].path = <<"saved">> /\ reqs[r1].database_id # <<>>
    /\ reqs[r2].path = <<"save_failed">> /\ ~reqs[r2].nik_exists
    /\ Cardinality(RowsOf(OtherNik)) = 1

\* C29: the face pictures saved by distinct requests never share a file path,
\* and the file at the path handed to a request holds that request's picture.
C29_FacePathsNeverShared ==
  /\ \A r1, r2 \in Requests :
       (r1 # r2 /\ reqs[r1].face_image_path # <<>> /\ reqs[r2].face_image_path # <<>>)
         => reqs[r1].face_image_path # reqs[r2].face_image_path
  /\ \A r \in Requests :
       reqs[r].face_image_path # <<>>
         => \E f \in files : <<f.path>> = reqs[r].face_image_path /\ f.crop = r

====
